---- MODULE Spec2Model ----
\* limits.py: the largest time value, in seconds, an IEEE-754 double can hold
\* with a spacing of at most 0.01 s, and its years/days/hours/minutes/seconds
\* breakdown.  TLC's integers are 32 bits wide and the script works on 53-bit
\* significands, so naturals are kept as little-endian limb sequences and a
\* double as sign, 53-bit significand and exponent; every float operation is
\* the exact operation followed by round-to-nearest, ties-to-even.
EXTENDS Integers, Sequences, FiniteSets, TLC

\* F applied to the value of v.  It equals F(v); written this way v is
\* evaluated once, however often F uses its argument.
ByValue(v, F(_)) == CHOOSE r \in {F(x) : x \in {v}} : TRUE

\* ---------------------------------------------------------------------------
\* Unbounded naturals (Python ints, significands): little-endian limbs, no
\* leading zero limb, zero is <<>>.
\* ---------------------------------------------------------------------------
Base == 2^15

RECURSIVE BitLenRec(_)
BitLenRec(n) == IF n = 0 THEN 0 ELSE 1 + BitLenRec(n \div 2)

BitLenSmall(n) == ByValue(n, LAMBDA v : BitLenRec(v))

LimbBits == BitLenSmall(Base) - 1

Limb(a, i) == IF i <= Len(a) THEN a[i] ELSE 0

RECURSIVE NatTrimAt(_, _)
NatTrimAt(a, n) ==
    IF n = 0 THEN <<>>
    ELSE IF a[n] = 0 THEN NatTrimAt(a, n - 1) ELSE SubSeq(a, 1, n)

NatTrim(a) == ByValue(a, LAMBDA v : NatTrimAt(v, Len(v)))

RECURSIVE NatFromIntRec(_)
NatFromIntRec(n) == IF n = 0 THEN <<>> ELSE <<n % Base>> \o NatFromIntRec(n \div Base)

NatFromInt(n) == ByValue(n, LAMBDA v : NatFromIntRec(v))

RECURSIVE NatToIntAt(_, _)
NatToIntAt(a, i) == IF i > Len(a) THEN 0 ELSE a[i] + Base * NatToIntAt(a, i + 1)

NatToInt(a) == ByValue(a, LAMBDA v : NatToIntAt(v, 1))

RECURSIVE NatAddC(_, _, _, _)
NatAddC(a, b, i, c) ==
    IF i > Len(a) /\ i > Len(b)
    THEN (IF c = 0 THEN <<>> ELSE <<c>>)
    ELSE <<(Limb(a, i) + Limb(b, i) + c) % Base>>
             \o NatAddC(a, b, i + 1, (Limb(a, i) + Limb(b, i) + c) \div Base)

NatAdd(a, b) == ByValue(<<a, b>>, LAMBDA p : NatAddC(p[1], p[2], 1, 0))

\* a - b for a >= b
RECURSIVE NatSubB(_, _, _, _)
NatSubB(a, b, i, br) ==
    IF i > Len(a) THEN <<>>
    ELSE IF a[i] - Limb(b, i) - br < 0
    THEN <<a[i] - Limb(b, i) - br + Base>> \o NatSubB(a, b, i + 1, 1)
    ELSE <<a[i] - Limb(b, i) - br>> \o NatSubB(a, b, i + 1, 0)

NatSub(a, b) == ByValue(<<a, b>>, LAMBDA p : NatTrim(NatSubB(p[1], p[2], 1, 0)))

RECURSIVE NatCmpAt(_, _, _)
NatCmpAt(a, b, i) ==
    IF i = 0 THEN 0
    ELSE IF a[i] # b[i] THEN (IF a[i] < b[i] THEN -1 ELSE 1)
    ELSE NatCmpAt(a, b, i - 1)

\* -1, 0, 1 as a < b, a = b, a > b
NatCmp(a, b) ==
    ByValue(<<a, b>>, LAMBDA p :
        IF Len(p[1]) # Len(p[2]) THEN (IF Len(p[1]) < Len(p[2]) THEN -1 ELSE 1)
        ELSE NatCmpAt(p[1], p[2], Len(p[1])))

RECURSIVE NatMulSmallC(_, _, _, _)
NatMulSmallC(a, c, i, carry) ==
    IF i > Len(a) THEN (IF carry = 0 THEN <<>> ELSE <<carry>>)
    ELSE <<(a[i] * c + carry) % Base>>
             \o NatMulSmallC(a, c, i + 1, (a[i] * c + carry) \div Base)

\* a * c for 0 <= c <= Base
NatMulSmall(a, c) ==
    ByValue(<<a, c>>, LAMBDA p : NatTrim(NatMulSmallC(p[1], p[2], 1, 0)))

RECURSIVE NatMulAt(_, _, _)
NatMulAt(a, b, j) ==
    IF j > Len(b) THEN <<>>
    ELSE NatAdd(NatMulSmall(a, b[j]), <<0>> \o NatMulAt(a, b, j + 1))

NatMul(a, b) == ByValue(<<a, b>>, LAMBDA p : NatTrim(NatMulAt(p[1], p[2], 1)))

RECURSIVE NatDivSmallAt(_, _, _, _)
NatDivSmallAt(a, c, i, r) ==
    IF i = 0 THEN <<>>
    ELSE Append(NatDivSmallAt(a, c, i - 1, (r * Base + a[i]) % c),
                (r * Base + a[i]) \div c)

\* floor(a / c) for 0 < c <= Base
NatDivSmall(a, c) ==
    ByValue(<<a, c>>, LAMBDA p : NatTrim(NatDivSmallAt(p[1], p[2], Len(p[1]), 0)))

RECURSIVE NatModSmallAt(_, _, _, _)
NatModSmallAt(a, c, i, r) ==
    IF i = 0 THEN r ELSE NatModSmallAt(a, c, i - 1, (r * Base + a[i]) % c)

NatModSmall(a, c) ==
    ByValue(<<a, c>>, LAMBDA p : NatModSmallAt(p[1], p[2], Len(p[1]), 0))

Zeros(k) == [i \in 1..k |-> 0]

\* a * 2^s
NatShl(a, s) ==
    ByValue(<<a, s>>, LAMBDA p :
        IF p[1] = <<>> THEN <<>>
        ELSE Zeros(p[2] \div LimbBits) \o NatMulSmall(p[1], 2^(p[2] % LimbBits)))

\* floor(a / 2^s)
NatShr(a, s) ==
    ByValue(<<a, s>>, LAMBDA p :
        IF p[2] \div LimbBits >= Len(p[1]) THEN <<>>
        ELSE NatDivSmall(SubSeq(p[1], p[2] \div LimbBits + 1, Len(p[1])),
                         2^(p[2] % LimbBits)))

NatBitLen(a) ==
    ByValue(a, LAMBDA v :
        IF v = <<>> THEN 0 ELSE LimbBits * (Len(v) - 1) + BitLenSmall(v[Len(v)]))

NatOdd(a) == ByValue(a, LAMBDA v : v # <<>> /\ v[1] % 2 = 1)

NatOne == <<1>>

\* ---------------------------------------------------------------------------
\* Signed dyadic numbers (-1)^neg * m * 2^e: the exact values of the script's
\* floats and ints, before rounding.
\* ---------------------------------------------------------------------------
Dy(neg, m, e) ==
    ByValue(<<neg, m, e>>, LAMBDA p :
        [neg |-> p[1] /\ p[2] # <<>>, m |-> p[2], e |-> IF p[2] = <<>> THEN 0 ELSE p[3]])

DyZero == Dy(FALSE, <<>>, 0)

DyInt(n) ==
    ByValue(n, LAMBDA v :
        IF v < 0 THEN Dy(TRUE, NatFromInt(-v), 0) ELSE Dy(FALSE, NatFromInt(v), 0))

DyNeg(x) == ByValue(x, LAMBDA v : Dy(~v.neg, v.m, v.e))

DyAbs(x) == ByValue(x, LAMBDA v : Dy(FALSE, v.m, v.e))

DyMul(x, y) ==
    ByValue(<<x, y>>, LAMBDA p :
        Dy(p[1].neg # p[2].neg, NatMul(p[1].m, p[2].m), p[1].e + p[2].e))

\* a * 2^e + b * 2^e with signs an, bn
DyAddAligned(an, a, bn, b, e) ==
    IF an = bn THEN Dy(an, NatAdd(a, b), e)
    ELSE ByValue(NatCmp(a, b), LAMBDA c :
             IF c = 0 THEN DyZero
             ELSE IF c > 0 THEN Dy(an, NatSub(a, b), e)
             ELSE Dy(bn, NatSub(b, a), e))

Min(i, j) == IF i < j THEN i ELSE j

DyAdd(x, y) ==
    ByValue(<<x, y>>, LAMBDA p :
        IF p[1].m = <<>> THEN p[2]
        ELSE IF p[2].m = <<>> THEN p[1]
        ELSE ByValue(<<NatShl(p[1].m, p[1].e - Min(p[1].e, p[2].e)),
                       NatShl(p[2].m, p[2].e - Min(p[1].e, p[2].e))>>,
                     LAMBDA q : DyAddAligned(p[1].neg, q[1], p[2].neg, q[2],
                                             Min(p[1].e, p[2].e))))

DySub(x, y) == DyAdd(x, DyNeg(y))

\* the sign of x: -1, 0, 1
DySign(x) == ByValue(x, LAMBDA v : IF v.m = <<>> THEN 0 ELSE IF v.neg THEN -1 ELSE 1)

\* -1, 0, 1 as x < y, x = y, x > y (exact)
DyCmp(x, y) == DySign(DySub(x, y))

DyLe(x, y) == DyCmp(x, y) <= 0
DyLt(x, y) == DyCmp(x, y) < 0

\* ---------------------------------------------------------------------------
\* IEEE-754 binary64 (Python float): a dyadic whose significand has exactly
\* Precision bits (zero apart).  The script's values stay far from the ends
\* of the exponent range, so overflow and subnormals are not modelled.
\* ---------------------------------------------------------------------------
Precision == 53

\* q or q + 1: n / 2^s to the nearest natural, ties to even, given q = floor(n / 2^s)
RoundUpFrom(n, s, q) ==
    ByValue(NatCmp(NatSub(n, NatShl(q, s)), NatShl(NatOne, s - 1)), LAMBDA c :
        IF c > 0 \/ (c = 0 /\ NatOdd(q)) THEN NatAdd(q, NatOne) ELSE q)

\* n / 2^s rounded to the nearest natural, ties to even (s >= 1)
RoundNat(n, s) ==
    ByValue(<<n, s>>, LAMBDA p :
        ByValue(NatShr(p[1], p[2]), LAMBDA q : RoundUpFrom(p[1], p[2], q)))

\* the double (-1)^neg * q * 2^e for a rounded significand q of at most
\* Precision + 1 bits
Renormalized(neg, q, e) ==
    IF NatBitLen(q) > Precision THEN Dy(neg, NatShr(q, 1), e + 1) ELSE Dy(neg, q, e)

\* the double nearest to the exact value x
Round(x) ==
    ByValue(<<x, NatBitLen(x.m)>>, LAMBDA p :
        IF p[2] = 0 THEN DyZero
        ELSE IF p[2] <= Precision
        THEN Dy(p[1].neg, NatShl(p[1].m, Precision - p[2]), p[1].e + p[2] - Precision)
        ELSE ByValue(RoundNat(p[1].m, p[2] - Precision), LAMBDA q :
                 Renormalized(p[1].neg, q, p[1].e + p[2] - Precision)))

FMul(x, y) == Round(DyMul(x, y))
FAdd(x, y) == Round(DyAdd(x, y))
FSub(x, y) == Round(DySub(x, y))

\* Long division in digits of RadixBits bits.
Radix == 2^5

RadixBits == BitLenSmall(Radix) - 1

\* the quotient digit floor(rem / d), for rem < Radix * d
DivDigit(rem, d) ==
    CHOOSE t \in 0..(Radix - 1) :
        /\ NatCmp(NatMulSmall(d, t), rem) <= 0
        /\ NatCmp(NatMulSmall(d, t + 1), rem) > 0

\* one step of the long division by st.d: the next quotient digit
DivStep(st) ==
    ByValue(DivDigit(st.rem, st.d), LAMBDA t :
        [rem  |-> NatMulSmall(NatSub(st.rem, NatMulSmall(st.d, t)), Radix),
         q    |-> NatAdd(NatMulSmall(st.q, Radix), NatFromInt(t)),
         d    |-> st.d,
         left |-> st.left - 1])

DivLoop[st \in [rem : Seq(Nat), q : Seq(Nat), d : Seq(Nat), left : Nat]] ==
    IF st.left = 0 THEN st ELSE DivLoop[DivStep(st)]

\* after the leading digit and `digits` more: q = floor(n * Radix^digits / d),
\* and rem = <<>> exactly when the division came out even (n < Radix * d)
DivDigits(n, d, digits) ==
    DivLoop[[rem |-> n, q |-> <<>>, d |-> d, left |-> digits + 1]]

\* the quotient digits after the leading one: at least Precision + 2 bits
QuotientDigits == (Precision + 2) \div RadixBits + 1

\* x / y for doubles x and y # 0: the quotient bits and a sticky bit, rounded
FDiv(x, y) ==
    ByValue(<<x, y>>, LAMBDA p :
        IF p[1].m = <<>> THEN DyZero
        ELSE ByValue(DivDigits(p[1].m, p[2].m, QuotientDigits), LAMBDA res :
                 Round(Dy(p[1].neg # p[2].neg,
                          NatAdd(NatShl(res.q, 1),
                                 IF res.rem = <<>> THEN <<>> ELSE NatOne),
                          p[1].e - p[2].e - QuotientDigits * RadixBits - 1))))

\* float(n) for a Python int n
IntToFloat(n) == Round(n)

\* int(x): truncation toward zero, a Python int
FloatToInt(x) ==
    ByValue(x, LAMBDA v :
        IF v.e >= 0 THEN Dy(v.neg, NatShl(v.m, v.e), 0)
        ELSE Dy(v.neg, NatShr(v.m, -v.e), 0))

\* a decimal literal num/den, correctly rounded
FloatLit(num, den) ==
    IF den = 1 THEN IntToFloat(DyInt(num))
    ELSE FDiv(IntToFloat(DyInt(num)), IntToFloat(DyInt(den)))

\* int * float: the int is converted first
IntMulFloat(n, x) == FMul(IntToFloat(n), x)

\* 2 ** k on Python ints
IntPow2(k) == Dy(FALSE, NatShl(NatOne, k), 0)

\* the digits of |x| * 10^digits rounded half-even to a natural
FixedDigits(x, digits) ==
    ByValue(<<NatMul(x.m, NatFromInt(10^digits)), x.e>>, LAMBDA p :
        IF p[2] >= 0 THEN NatShl(p[1], p[2]) ELSE RoundNat(p[1], -p[2]))

\* format(x, ".<digits>f"): the sign and the digits as a natural, the exact value
\* rounded half-even at the last digit
Fixed(x, digits) ==
    ByValue(<<x, digits>>, LAMBDA p :
        [neg |-> p[1].neg, scaled |-> FixedDigits(p[1], p[2]), digits |-> p[2]])

\* the groups of three decimal digits of format(n, ","), most significant first
RECURSIVE Groups(_)
Groups(n) ==
    ByValue(n, LAMBDA v :
        IF NatCmp(v, NatFromInt(1000)) < 0 THEN <<NatToInt(v)>>
        ELSE Append(Groups(NatDivSmall(v, 1000)), NatModSmall(v, 1000)))

\* the decimal digits of str(n), most significant first
RECURSIVE Digits(_)
Digits(n) ==
    ByValue(n, LAMBDA v :
        IF NatCmp(v, NatFromInt(10)) < 0 THEN <<NatToInt(v)>>
        ELSE Append(Digits(NatDivSmall(v, 10)), NatModSmall(v, 10)))

\* the gap between the double x # 0 and the next double of larger magnitude
Gap(x) == Round(Dy(FALSE, NatOne, x.e))

\* the next double above / below x > 0
NextUp(x) == ByValue(x, LAMBDA v : Round(DyAdd(v, Gap(v))))
NextDown(x) ==
    ByValue(x, LAMBDA v :
        IF NatBitLen(NatSub(v.m, NatOne)) < Precision
        THEN Round(DySub(v, Dy(FALSE, NatOne, v.e - 1)))
        ELSE Round(DySub(v, Gap(v))))

\* ---------------------------------------------------------------------------
\* The script.
\* ---------------------------------------------------------------------------
VARIABLES pc, input, max_time_seconds, next_value, spacing, remaining,
          years, days, hours, minutes, seconds, out

vars == <<pc, input, max_time_seconds, next_value, spacing, remaining,
          years, days, hours, minutes, seconds, out>>

\* a name the script has not assigned yet
Unbound == [unbound |-> TRUE]

\* the slip of counting the hidden bit: 2 ** 53
FractionBitsWithHiddenBit == Precision

\* 2 ** 52: the explicit fraction bits of a double
FractionBits == 52

\* the slip of asking for a millisecond: 0.001
TargetSpacingMilli == FloatLit(1, 1000)

\* the precision the script asks for, the literal 0.01
TargetSpacing == FloatLit(1, 100)

\* the slip of taking the single-precision epsilon, 2^-23
float32_epsilon == Round(Dy(FALSE, NatOne, -23))

\* sys.float_info.epsilon = 2^-(Precision - 1)
float_info_epsilon == Round(Dy(FALSE, NatOne, 1 - Precision))

seconds_per_minute == FloatLit(60, 1)
seconds_per_hour == FMul(FloatLit(60, 1), seconds_per_minute)
seconds_per_day == FMul(FloatLit(24, 1), seconds_per_hour)

\* the slip of a 365-day year
seconds_per_common_year == FMul(FloatLit(365, 1), seconds_per_day)

seconds_per_year == FMul(FloatLit(36525, 100), seconds_per_day)

\* str(n) and format(n, ",") of a Python int
IntStr(n) == [neg |-> n.neg, digits |-> Digits(n.m)]
IntGrouped(n) == [neg |-> n.neg, groups |-> Groups(n.m)]

Line(kind, val) == [line |-> kind, val |-> val]
Blank == Line("blank", <<>>)

\* ---- the values the formatter is run on ----------------------------------
\* The script feeds the formatter max_time_seconds; to settle what the
\* formatter does on other nonnegative values, line 31 may take one of a
\* bounded set of doubles instead.
MaxCount == 3

ScriptRun == [src |-> "script", value |-> DyZero]
Given(v) == [src |-> "given", value |-> v]

\* float(n * 2 ** k)
Scaled(n, k) == Round(Dy(FALSE, NatFromInt(n), k))

Units == {seconds_per_year, seconds_per_day, seconds_per_hour, seconds_per_minute}

Multiples == {IntMulFloat(DyInt(c), u) : c \in 1..MaxCount, u \in Units}

Inputs ==
    {DyZero, FloatLit(900615, 10)}
        \cup Multiples
        \cup {NextDown(v) : v \in Multiples}
        \cup {NextUp(v) : v \in Multiples}
        \cup {NextDown(Scaled(1, Precision)), Scaled(1, Precision),
              Scaled(33, 53), Scaled(1989, 60)}

Init ==
    /\ pc = "solve"
    /\ input \in {ScriptRun} \cup {Given(v) : v \in Inputs}
    /\ max_time_seconds = Unbound
    /\ next_value = Unbound
    /\ spacing = Unbound
    /\ remaining = Unbound
    /\ years = Unbound
    /\ days = Unbound
    /\ hours = Unbound
    /\ minutes = Unbound
    /\ seconds = Unbound
    /\ out = <<>>

\* line 14
Solve ==
    /\ pc = "solve"
    /\ max_time_seconds' = FMul(TargetSpacing, IntToFloat(IntPow2(FractionBits)))
    /\ pc' = "print_max"
    /\ UNCHANGED <<input, next_value, spacing, remaining, years, days, hours,
                   minutes, seconds, out>>

\* lines 16-17
PrintMax ==
    /\ pc = "print_max"
    /\ out' = out \o <<Line("max", Fixed(max_time_seconds, 2)), Blank>>
    /\ pc' = "verify"
    /\ UNCHANGED <<input, max_time_seconds, next_value, spacing, remaining, years,
                   days, hours, minutes, seconds>>

\* the slip of taking the spacing from the formula instead of measuring it:
\* spacing = max_time_seconds * epsilon
VerifyByFormula ==
    /\ pc = "verify"
    /\ next_value' = FAdd(max_time_seconds, FMul(max_time_seconds, float_info_epsilon))
    /\ spacing' = FMul(max_time_seconds, float_info_epsilon)
    /\ pc' = "print_spacing"
    /\ UNCHANGED <<input, max_time_seconds, remaining, years, days, hours, minutes,
                   seconds, out>>

\* lines 20-21
Verify ==
    /\ pc = "verify"
    /\ next_value' = FAdd(max_time_seconds, FMul(max_time_seconds, float_info_epsilon))
    /\ spacing' = FSub(next_value', max_time_seconds)
    /\ pc' = "print_spacing"
    /\ UNCHANGED <<input, max_time_seconds, remaining, years, days, hours, minutes,
                   seconds, out>>

\* lines 22-23
PrintSpacing ==
    /\ pc = "print_spacing"
    /\ out' = out \o <<Line("spacing", Fixed(spacing, 6)), Blank>>
    /\ pc' = "begin"
    /\ UNCHANGED <<input, max_time_seconds, next_value, spacing, remaining, years,
                   days, hours, minutes, seconds>>

\* lines 26-31
Begin ==
    /\ pc = "begin"
    /\ remaining' = IF input.src = "script" THEN max_time_seconds ELSE input.value
    /\ pc' = "years"
    /\ UNCHANGED <<input, max_time_seconds, next_value, spacing, years, days, hours,
                   minutes, seconds, out>>

\* float division by zero raises, and the script stops there
ZeroDivisionError == pc' = "error"

\* the slip of rounding the quotient: int(remaining / unit + 0.5)
CountRounded(rem, unit) == FloatToInt(FAdd(FDiv(rem, unit), FloatLit(1, 2)))

\* count = int(remaining / unit)
Count(rem, unit) == FloatToInt(FDiv(rem, unit))

\* the slip of leaving the unit out: remaining -= count
RestOfCount(rem, count, unit) == FSub(rem, IntToFloat(count))

\* remaining -= count * unit
Rest(rem, count, unit) == FSub(rem, IntMulFloat(count, unit))

\* lines 33-34
Years ==
    /\ pc = "years"
    /\ IF seconds_per_year = DyZero
       THEN ZeroDivisionError /\ UNCHANGED <<remaining, years>>
       ELSE /\ years' = Count(remaining, seconds_per_year)
            /\ remaining' = Rest(remaining, years', seconds_per_year)
            /\ pc' = "days"
    /\ UNCHANGED <<input, max_time_seconds, next_value, spacing, days, hours,
                   minutes, seconds, out>>

\* the slip of dividing by the hour's seconds in the days step
DaysByHour ==
    /\ pc = "days"
    /\ IF seconds_per_hour = DyZero
       THEN ZeroDivisionError /\ UNCHANGED <<remaining, days>>
       ELSE /\ days' = Count(remaining, seconds_per_hour)
            /\ remaining' = Rest(remaining, days', seconds_per_hour)
            /\ pc' = "hours"
    /\ UNCHANGED <<input, max_time_seconds, next_value, spacing, years, hours,
                   minutes, seconds, out>>

\* lines 36-37
Days ==
    /\ pc = "days"
    /\ IF seconds_per_day = DyZero
       THEN ZeroDivisionError /\ UNCHANGED <<remaining, days>>
       ELSE /\ days' = Count(remaining, seconds_per_day)
            /\ remaining' = Rest(remaining, days', seconds_per_day)
            /\ pc' = "hours"
    /\ UNCHANGED <<input, max_time_seconds, next_value, spacing, years, hours,
                   minutes, seconds, out>>

\* lines 39-40
Hours ==
    /\ pc = "hours"
    /\ IF seconds_per_hour = DyZero
       THEN ZeroDivisionError /\ UNCHANGED <<remaining, hours>>
       ELSE /\ hours' = Count(remaining, seconds_per_hour)
            /\ remaining' = Rest(remaining, hours', seconds_per_hour)
            /\ pc' = "minutes"
    /\ UNCHANGED <<input, max_time_seconds, next_value, spacing, years, days,
                   minutes, seconds, out>>

\* lines 42-43
Minutes ==
    /\ pc = "minutes"
    /\ IF seconds_per_minute = DyZero
       THEN ZeroDivisionError /\ UNCHANGED <<remaining, minutes>>
       ELSE /\ minutes' = Count(remaining, seconds_per_minute)
            /\ remaining' = Rest(remaining, minutes', seconds_per_minute)
            /\ pc' = "seconds"
    /\ UNCHANGED <<input, max_time_seconds, next_value, spacing, years, days,
                   hours, seconds, out>>

\* line 45
Seconds ==
    /\ pc = "seconds"
    /\ seconds' = remaining
    /\ pc' = "print_formatted"
    /\ UNCHANGED <<input, max_time_seconds, next_value, spacing, remaining, years,
                   days, hours, minutes, out>>

\* the slip of printing the breakdown with hours before days
PrintFormattedHoursFirst ==
    /\ pc = "print_formatted"
    /\ out' = out \o <<Line("header", <<>>),
                       Line("breakdown", <<IntStr(years), IntStr(hours), IntStr(days),
                                           IntStr(minutes), Fixed(seconds, 2)>>)>>
    /\ pc' = "print_summary"
    /\ UNCHANGED <<input, max_time_seconds, next_value, spacing, remaining, years,
                   days, hours, minutes, seconds>>

\* lines 47-48
PrintFormatted ==
    /\ pc = "print_formatted"
    /\ out' = out \o <<Line("header", <<>>),
                       Line("breakdown", <<IntStr(years), IntStr(days), IntStr(hours),
                                           IntStr(minutes), Fixed(seconds, 2)>>)>>
    /\ pc' = "print_summary"
    /\ UNCHANGED <<input, max_time_seconds, next_value, spacing, remaining, years,
                   days, hours, minutes, seconds>>

\* lines 51-53
PrintSummary ==
    /\ pc = "print_summary"
    /\ out' = out \o <<Blank, Line("summary_text", <<>>),
                       Line("summary", IntGrouped(years))>>
    /\ pc' = "done"
    /\ UNCHANGED <<input, max_time_seconds, next_value, spacing, remaining, years,
                   days, hours, minutes, seconds>>

Next ==
    \/ Solve
    \/ PrintMax
    \/ Verify
    \/ PrintSpacing
    \/ Begin
    \/ Years
    \/ Days
    \/ Hours
    \/ Minutes
    \/ Seconds
    \/ PrintFormatted
    \/ PrintSummary

Spec == Init /\ [][Next]_vars

\* the script is one thread that runs to its last line
FairSpec == Spec /\ WF_vars(Next)

\* ---------------------------------------------------------------------------
\* Vocabulary of the properties.
\* ---------------------------------------------------------------------------
\* how far around max_time_seconds the representable values are probed
MaxUlps == 3
MaxBinades == 2

\* the largest power of two that is <= the double x > 0
Binade(x) == Round(Dy(FALSE, NatOne, x.e + Precision - 1))

\* doubles around x > 0: its neighbours within MaxUlps steps, and the powers of
\* two MaxBinades binades down and up with the double just below each
Probes(x) ==
    LET near == {Round(DyAdd(x, DyMul(DyInt(j), Gap(x)))) : j \in 1..MaxUlps}
                    \cup {Round(DySub(x, DyMul(DyInt(j), Gap(x)))) : j \in 1..MaxUlps}
        pows == {Round(Dy(FALSE, NatOne, x.e + Precision - 1 + j)) :
                     j \in (-MaxBinades)..(MaxBinades + 1)}
    IN  near \cup pows \cup {NextDown(v) : v \in pows}

\* g <= 0.01 s, the decimal hundredth
WithinTarget(g) == DyLe(DyMul(g, DyInt(100)), DyInt(1))

RECURSIVE NatFromDigits(_)
NatFromDigits(ds) ==
    IF ds = <<>> THEN <<>>
    ELSE NatAdd(NatMulSmall(NatFromDigits(SubSeq(ds, 1, Len(ds) - 1)), 10),
                NatFromInt(ds[Len(ds)]))

\* 45,035,996,273,704.96 in hundredths
ExpectedHundredths == NatFromDigits(<<4, 5, 0, 3, 5, 9, 9, 6, 2, 7, 3, 7, 0, 4, 9, 6>>)

\* the value the formatter was started on
Started == remaining # Unbound
InputValue == IF input.src = "script" THEN max_time_seconds ELSE input.value

\* the inputs whose every count * unit product is an exact double
Below2p53 == DyLt(InputValue, IntPow2(53))

Whole(n) == Dy(n.neg, n.m, 0)

\* years*31,557,600 + days*86,400 + hours*3,600 + minutes*60 + seconds, exactly
Reconstructed ==
    DyAdd(DyAdd(DyAdd(DyAdd(DyMul(Whole(years), DyInt(31557600)),
                            DyMul(Whole(days), DyInt(86400))),
                      DyMul(Whole(hours), DyInt(3600))),
                DyMul(Whole(minutes), DyInt(60))),
          seconds)

\* |reconstruction - input| <= 1e-6
RoundTripOk ==
    DyLe(DyMul(DyAbs(DySub(Reconstructed, InputValue)), DyInt(1000000)), DyInt(1))

\* count = floor(rem / unit) over the reals
IsFloor(count, rem, unit) ==
    /\ DyLe(DyMul(Whole(count), DyInt(unit)), rem)
    /\ DyLt(rem, DyMul(DyAdd(Whole(count), DyInt(1)), DyInt(unit)))

\* rem2 = rem - count * unit over the reals
IsRest(rem2, rem, count, unit) ==
    DyCmp(rem2, DySub(rem, DyMul(Whole(count), DyInt(unit)))) = 0

\* one extraction of the formatter, as the step from a state to the next
GreedyStep ==
    /\ pc = "years" => IsFloor(years', remaining, 31557600)
    /\ pc = "days" => IsFloor(days', remaining, 86400)
    /\ pc = "hours" => IsFloor(hours', remaining, 3600)
    /\ pc = "minutes" => IsFloor(minutes', remaining, 60)
    /\ pc = "seconds" => seconds' = remaining

ExactStep ==
    /\ pc = "years" => IsRest(remaining', remaining, years', 31557600)
    /\ pc = "days" => IsRest(remaining', remaining, days', 86400)
    /\ pc = "hours" => IsRest(remaining', remaining, hours', 3600)
    /\ pc = "minutes" => IsRest(remaining', remaining, minutes', 60)

IntIs(n, k) == n = DyInt(k)

\* the breakdown of the finished run is (y, d, h, m, s)
BreakdownIs(y, d, h, m, s) ==
    /\ IntIs(years, y) /\ IntIs(days, d) /\ IntIs(hours, h) /\ IntIs(minutes, m)
    /\ seconds = s

NonNegInt(n) == ~n.neg /\ n.e = 0

\* 0 <= x < k
InRange(x, k) == ~x.neg /\ DyLt(x, DyInt(k))

\* what the formatter's steps keep true of remaining and of the counts
StepBounds ==
    /\ Started => ~remaining.neg
    /\ pc = "days" => InRange(remaining, 31557600) /\ NonNegInt(years)
    /\ pc = "hours" =>
          InRange(remaining, 86400) /\ NonNegInt(days) /\ DyLe(days, DyInt(365))
    /\ pc = "minutes" =>
          InRange(remaining, 3600) /\ NonNegInt(hours) /\ DyLe(hours, DyInt(23))
    /\ pc = "seconds" =>
          InRange(remaining, 60) /\ NonNegInt(minutes) /\ DyLe(minutes, DyInt(59))
    /\ seconds # Unbound => InRange(seconds, 60)

OutKinds == [i \in 1..Len(out) |-> out[i].line]

ExpectedKinds ==
    <<"max", "blank", "spacing", "blank", "header", "breakdown", "blank",
      "summary_text", "summary">>

\* the lines printed so far are the first lines of the one fixed order, and each
\* value line carries the value computed before it
OutputOrder ==
    /\ Len(out) <= Len(ExpectedKinds)
    /\ OutKinds = SubSeq(ExpectedKinds, 1, Len(out))
    /\ Len(out) >= 1 => out[1].val = Fixed(max_time_seconds, 2)
    /\ Len(out) >= 3 => out[3].val = Fixed(spacing, 6)
    /\ Len(out) >= 6 =>
          /\ seconds # Unbound
          /\ out[6].val = <<IntStr(years), IntStr(days), IntStr(hours),
                            IntStr(minutes), Fixed(seconds, 2)>>
    /\ Len(out) >= 9 => out[9].val = IntGrouped(years)
    /\ pc = "done" => Len(out) = Len(ExpectedKinds)

\* ---------------------------------------------------------------------------
\* Properties.
\* ---------------------------------------------------------------------------

\* C1: max_time_seconds is the largest double whose gap to the next double is
\* at most 0.01 s: its own gap is <= 0.01 and every larger double has a gap
\* above 0.01.
C1_LargestWithinTarget ==
    max_time_seconds # Unbound =>
        /\ WithinTarget(Gap(max_time_seconds))
        /\ \A y \in Probes(max_time_seconds) :
               DyLt(max_time_seconds, y) => ~WithinTarget(Gap(y))

\* C2: once the solver has run, max_time_seconds is the exact product of the
\* double 0.01 and 2^52, it is the double nearest to 45,035,996,273,704.96, it
\* is never recomputed, and the first line printed shows it as
\* 45035996273704.96.
C2_ClosedForm ==
    max_time_seconds # Unbound =>
        /\ DyCmp(max_time_seconds, DyMul(TargetSpacing, IntPow2(52))) = 0
        /\ DyLe(DyMul(DyInt(2),
                      DyAbs(DySub(DyMul(max_time_seconds, DyInt(100)),
                                  Dy(FALSE, ExpectedHundredths, 0)))),
                DyMul(DyInt(100), Gap(max_time_seconds)))
        /\ Len(out) >= 1 =>
               out[1] = Line("max", [neg |-> FALSE, scaled |-> ExpectedHundredths,
                                     digits |-> 2])

C2_Witness == pc = "verify" /\ Len(out) = 2

C5_SpacingWithinTarget ==
    spacing # Unbound => DySign(spacing) = 1 /\ WithinTarget(spacing)

C5_Witness == pc = "print_spacing" /\ DySign(spacing) = 1

\* C6 as stated: the measured spacing is strictly greater than the gap at every
\* smaller positive double.
C6_StrictlyGreater ==
    spacing # Unbound =>
        \A y \in Probes(max_time_seconds) :
            DyLt(y, max_time_seconds) => DyLt(Gap(y), spacing)

\* C6 amended: the measured spacing is at least the gap at every smaller
\* positive double, and strictly greater exactly for those below 2^45; the
\* doubles from 2^45 up to max_time_seconds have the same gap.
C6_NotSmaller ==
    spacing # Unbound =>
        /\ DyCmp(Binade(max_time_seconds), IntPow2(45)) = 0
        /\ \A y \in Probes(max_time_seconds) :
               DyLt(y, max_time_seconds) =>
                   IF DyLt(y, IntPow2(45)) THEN DyLt(Gap(y), spacing)
                   ELSE Gap(y) = spacing

C6_Witness ==
    /\ spacing # Unbound
    /\ \E y \in Probes(max_time_seconds) :
           DyLt(y, max_time_seconds) /\ Gap(y) = spacing
    /\ \E y \in Probes(max_time_seconds) :
           DyLt(y, IntPow2(45)) /\ DyLt(Gap(y), spacing)

\* C7: on the script's own run the year count is floor(max_time_seconds /
\* 31,557,600), lies in [1,400,000, 1,500,000), and is the count the summary
\* line prints.
C7_YearCount ==
    input = ScriptRun /\ years # Unbound =>
        /\ IsFloor(years, max_time_seconds, 31557600)
        /\ DyLe(DyInt(1400000), years) /\ DyLt(years, DyInt(1500000))
        /\ pc = "done" => out[Len(out)] = Line("summary", [neg |-> FALSE,
                                                           groups |-> Groups(years.m)])

C7_Witness == input = ScriptRun /\ pc = "done" /\ years = DyInt(1427104)

\* C8: every run reaches its last line, no run raises an error, no state
\* short of the last line is stuck, the solver's value is set once, and the
\* lines come out in the one fixed order: maximum, spacing, breakdown (years,
\* days, hours, minutes, seconds, printed after the formatter has finished),
\* summary.
C8_RunsToCompletion ==
    /\ <>(pc = "done")
    /\ [](pc # "error")
    /\ [](pc = "done" \/ ENABLED Next)
    /\ [](OutputOrder)
    /\ [][max_time_seconds # Unbound => max_time_seconds' = max_time_seconds]_vars

C8_Witness == pc = "done" /\ OutKinds = ExpectedKinds

C10_NextRepresentable ==
    next_value # Unbound =>
        /\ next_value = NextUp(max_time_seconds)
        /\ spacing = Gap(max_time_seconds)
        /\ Len(out) >= 3 => out[3].val = Fixed(Gap(max_time_seconds), 6)

C10_Witness == pc = "begin" /\ DyLt(max_time_seconds, next_value)

====
